---------------------------- MODULE Spec2Model ----------------------------
(***************************************************************************)
(* A model of the request authentication and dispatch pipeline of the      *)
(* bittensor axon / dendrite / synapse code.                               *)
(*                                                                         *)
(* Header values are sequences of one-character strings, so that           *)
(* str.split(".") , int(...) and f"{nonce}" are modelled by what they do.  *)
(***************************************************************************)
EXTENDS Integers, Sequences, FiniteSets, TLC

VARIABLES
  nonces,    \* FastAuthInterceptor.nonces, the nonce ledger
  cur,       \* the request the interceptor handled last, and what came of it
  maxAcc,    \* per (sender, session): the nonce of the last request let through
  streak,    \* the accepted request a retry would repeat, and whether it was retried
  inflight,  \* the requests awaiting call_next, in the order they were let through
  calls,     \* the calls Synapse.apply is handling: envelope and position in apply
  pool,      \* axon.priority_threadpool: its queue, its workers and its futures
  dcalls,    \* the calls Dendrite.apply is handling: envelope and position in apply
  clock,     \* what the client's monotonic clock reads
  signedNonces,  \* the nonces of the headers the Dendrite signed last
  axon,      \* the axon, once constructed: its config, and whether it serves
  server,    \* axon.server, the FastAPIThreadedServer: its flags and its threads
  routed     \* the call the route handler built for the request let through

authVars == <<nonces, cur, maxAcc, streak, inflight>>
synVars == <<calls, pool>>
denVars == <<dcalls, clock, signedNonces>>
axonVars == <<axon, server, routed>>
vars == <<nonces, cur, maxAcc, streak, inflight, calls, pool, dcalls, clock, signedNonces, axon,
          server, routed>>

---------------------------------------------------------------------------
(* Bounds of the model *)

\* nonces presented by clients range over 1..MaxNonce
MaxNonce == 2

\* number of requests that may be awaiting call_next at the same time
MaxInflight == 2

\* number of calls Synapse.apply handles at the same time
MaxCalls == 2

\* self.priority( call ) ranges over 1..MaxPriority
MaxPriority == 2

\* number of calls Dendrite.apply handles at the same time
MaxDendriteCalls == 1

\* the client's monotonic clock reads 1..MaxClock
MaxClock == 2

\* threads one FastAPIThreadedServer may spawn
MaxThreads == 2

\* worker threads of the pool (axon.max_workers)
MaxWorkers == 1

\* the pool's ceiling on admitted tasks (maxConcurrentRequests)
MaxConcurrentRequests == 3

---------------------------------------------------------------------------
(* Strings *)

\* dict.get() of a header that is absent (Python None)
None == <<"<None>">>

DigitChars == <<"0", "1", "2", "3", "4", "5", "6", "7", "8", "9">>

IsDigit(c) == \E i \in 1..10 : DigitChars[i] = c

DigitVal(c) == (CHOOSE i \in 1..10 : DigitChars[i] = c) - 1

RECURSIVE NatToStr(_)
NatToStr(n) ==
  IF n < 10 THEN <<DigitChars[n + 1]>>
  ELSE NatToStr(n \div 10) \o <<DigitChars[(n % 10) + 1]>>

\* f"{nonce}" / str(int): plain decimal rendering
IntToStr(n) == IF n < 0 THEN <<"-">> \o NatToStr(0 - n) ELSE NatToStr(n)

RECURSIVE LStrip(_)
LStrip(s) ==
  IF Len(s) > 0 /\ s[1] = " " THEN LStrip(Tail(s)) ELSE s

RECURSIVE RStrip(_)
RStrip(s) ==
  IF Len(s) > 0 /\ s[Len(s)] = " " THEN RStrip(SubSeq(s, 1, Len(s) - 1)) ELSE s

RECURSIVE DigitsVal(_)
DigitsVal(s) ==
  IF Len(s) = 0 THEN 0
  ELSE 10 * DigitsVal(SubSeq(s, 1, Len(s) - 1)) + DigitVal(s[Len(s)])

\* Python int(str): surrounding whitespace is stripped, one optional sign,
\* then one or more decimal digits; anything else raises ValueError.
PyInt(s) ==
  LET t == RStrip(LStrip(s))
      signed == Len(t) > 0 /\ t[1] \in {"+", "-"}
      d == IF signed THEN Tail(t) ELSE t
  IN IF Len(d) > 0 /\ \A i \in 1..Len(d) : IsDigit(d[i])
     THEN [ok |-> TRUE,
           val |-> IF signed /\ t[1] = "-" THEN 0 - DigitsVal(d) ELSE DigitsVal(d)]
     ELSE [ok |-> FALSE, val |-> 0]

\* str.split("."): the fields between the dots, empty fields kept
RECURSIVE Split(_)
Split(s) ==
  IF \A i \in 1..Len(s) : s[i] # "." THEN <<s>>
  ELSE LET i == CHOOSE k \in 1..Len(s) :
                  s[k] = "." /\ \A j \in 1..(k - 1) : s[j] # "."
       IN <<SubSeq(s, 1, i - 1)>> \o Split(SubSeq(s, i + 1, Len(s)))

\* ".".join(fields)
RECURSIVE Join(_)
Join(fields) ==
  IF Len(fields) = 0 THEN << >>
  ELSE IF Len(fields) = 1 THEN fields[1]
  ELSE fields[1] \o <<".">> \o Join(Tail(fields))


---------------------------------------------------------------------------
(* Identities and the opaque keypair capability *)

\* the hotkey of the wallet this axon serves with
receiver_hotkey == <<"R">>

\* some other axon's hotkey
other_hotkey == <<"Q">>

SenderA == <<"A">>
SenderB == <<"B">>

\* a sender field that is no ss58 address
BadAddress == <<"!">>

\* the addresses Keypair(ss58_address=...) can decode
ValidSS58(address) == address \in {SenderA, SenderB, receiver_hotkey, other_hotkey}

\* bytes.hex() has no "." in it: the signed bytes are kept readable, with the
\* dots of the message written "_"
HexOf(s) == [i \in 1..Len(s) |-> IF s[i] = "." THEN "_" ELSE s[i]]

\* f"0x{keypair.sign(message).hex()}" for the keypair of `address`
keypair_sign(address, message) == <<"0", "x">> \o HexOf(address) \o <<"|">> \o HexOf(message)

\* mutant: a verification that accepts whatever it is given
keypair_verify_any(address, message, signature) == [raised |-> FALSE, ok |-> TRUE]

\* keypair.verify(message, signature) for Keypair(ss58_address = address):
\* a str signature must be "0x"-prefixed hex, else the library raises
keypair_verify(address, message, signature) ==
  IF Len(signature) < 2 \/ SubSeq(signature, 1, 2) # <<"0", "x">>
  THEN [raised |-> TRUE, ok |-> FALSE]
  ELSE [raised |-> FALSE, ok |-> signature = keypair_sign(address, message)]

---------------------------------------------------------------------------
(* Dendrite.sign *)

\* the header Dendrite.sign builds from the nonce string it formatted
sign_with(nonce_str, sender_hotkey, receiver, uuid) ==
  LET message == Join(<<nonce_str, sender_hotkey, receiver, uuid>>)
      signature == keypair_sign(sender_hotkey, message)
  IN Join(<<nonce_str, sender_hotkey, signature, uuid>>)

sign(nonce, sender_hotkey, receiver, uuid) ==
  sign_with(IntToStr(nonce), sender_hotkey, receiver, uuid)

---------------------------------------------------------------------------
(* FastAuthInterceptor *)

NoExc == [type |-> "none", status_code |-> 0, detail |-> ""]
HTTPException(status_code, detail) ==
  [type |-> "HTTPException", status_code |-> status_code, detail |-> detail]
PyException(detail) == [type |-> "Exception", status_code |-> 0, detail |-> detail]

NoParts ==
  [ok |-> FALSE, nonce |-> 0, sender_hotkey |-> << >>, signature |-> << >>,
   receptor_uuid |-> << >>]

\* mutant: a header with more than four fields is taken for a v2 header
FieldCountAtLeast4(parts) == Len(parts) >= 4

\* line 385: the header has the four fields of the v2 format
FieldCountOk(parts) == Len(parts) = 4

parse_signature_v2(signature) ==
  LET parts == Split(signature)
  IN IF ~FieldCountOk(parts) THEN NoParts
     ELSE IF ~PyInt(parts[1]).ok THEN NoParts
     ELSE [ok |-> TRUE, nonce |-> PyInt(parts[1]).val, sender_hotkey |-> parts[2],
           signature |-> parts[3], receptor_uuid |-> parts[4]]

\* the protocol version floor
MinVersion == 510

\* mutant: the floor is written lower than it is
VersionTooOldLowerFloor(version_int) == version_int < 500

VersionTooOld(version_int) == version_int < MinVersion

\* parse_signature: the exception it raises (NoExc when it returns), the parts
\* it returns, and the steps it went through
parse_signature(metadata) ==
  IF metadata.signature = None
  THEN [exc |-> HTTPException(400, "Request signature missing"), parts |-> NoParts,
        trace |-> <<"get">>]
  ELSE IF metadata.version = None
  THEN [exc |-> PyException("TypeError: int() argument is None"), parts |-> NoParts,
        trace |-> <<"get", "version">>]
  ELSE IF ~PyInt(metadata.version).ok
  THEN [exc |-> PyException("ValueError: invalid literal for int()"), parts |-> NoParts,
        trace |-> <<"get", "version">>]
  ELSE IF VersionTooOld(PyInt(metadata.version).val)
  THEN [exc |-> HTTPException(400, "Incorrect Version"), parts |-> NoParts,
        trace |-> <<"get", "version">>]
  ELSE LET parts == parse_signature_v2(metadata.signature)
       IN IF parts.ok
          THEN [exc |-> NoExc, parts |-> parts, trace |-> <<"get", "version", "parse_v2">>]
          ELSE [exc |-> HTTPException(400, "Unknown signature format"), parts |-> NoParts,
                trace |-> <<"get", "version", "parse_v2">>]

\* mutant: the session is left out of the message
server_message_no_session(nonce, sender_hotkey, receptor_uuid) ==
  Join(<<IntToStr(nonce), sender_hotkey, receiver_hotkey>>)

\* line 438: the message the signature must be over
server_message(nonce, sender_hotkey, receptor_uuid) ==
  Join(<<IntToStr(nonce), sender_hotkey, receiver_hotkey, receptor_uuid>>)

\* mutant: one ledger entry per sender, whatever the session
endpoint_key_sender(sender_hotkey, receptor_uuid) == sender_hotkey

endpoint_key(sender_hotkey, receptor_uuid) == sender_hotkey \o <<":">> \o receptor_uuid

\* mutant: the tie is let through
NonceTooSmallStrict(ledger, key, nonce) == key \in DOMAIN ledger /\ nonce < ledger[key]

\* mutant: the successor of the stored nonce is refused as well
NonceTooSmallOffByOne(ledger, key, nonce) ==
  key \in DOMAIN ledger /\ nonce <= ledger[key] + 1

\* lines 441-443: the presented nonce does not advance the ledger entry
NonceTooSmall(ledger, key, nonce) == key \in DOMAIN ledger /\ nonce <= ledger[key]

\* mutant: the ledger is not advanced
StoreNonceLost(ledger, key, nonce) == ledger

\* mutant: the ledger keeps the entry of the last key only
StoreNonceOnly(ledger, key, nonce) == [k \in {key} |-> nonce]

\* line 449: self.nonces[endpoint_key] = nonce
StoreNonce(ledger, key, nonce) ==
  [k \in DOMAIN ledger \cup {key} |-> IF k = key THEN nonce ELSE ledger[k]]

\* mutant: the result of keypair.verify is not looked at
check_signature_unverified(ledger, nonce, sender_hotkey, signature, receptor_uuid) ==
  IF ~ValidSS58(sender_hotkey)
  THEN [exc |-> PyException("ValueError: invalid ss58 address"), nonces |-> ledger,
        trace |-> <<"keypair">>]
  ELSE
    LET key == endpoint_key(sender_hotkey, receptor_uuid)
    IN IF NonceTooSmall(ledger, key, nonce)
       THEN [exc |-> HTTPException(403, "Nonce is too small"), nonces |-> ledger,
             trace |-> <<"keypair", "replay">>]
       ELSE [exc |-> NoExc, nonces |-> StoreNonce(ledger, key, nonce),
             trace |-> <<"keypair", "replay", "verify", "store">>]

\* mutant: the nonce is stored before the signature is verified
check_signature_store_first(ledger, nonce, sender_hotkey, signature, receptor_uuid) ==
  IF ~ValidSS58(sender_hotkey)
  THEN [exc |-> PyException("ValueError: invalid ss58 address"), nonces |-> ledger,
        trace |-> <<"keypair">>]
  ELSE
    LET message == server_message(nonce, sender_hotkey, receptor_uuid)
        key == endpoint_key(sender_hotkey, receptor_uuid)
        verified == keypair_verify(sender_hotkey, message, signature)
    IN IF NonceTooSmall(ledger, key, nonce)
       THEN [exc |-> HTTPException(403, "Nonce is too small"), nonces |-> ledger,
             trace |-> <<"keypair", "replay">>]
       ELSE IF verified.raised
       THEN [exc |-> PyException("TypeError: signature is no hex-string"),
             nonces |-> StoreNonce(ledger, key, nonce),
             trace |-> <<"keypair", "replay", "store", "verify">>]
       ELSE IF ~verified.ok
       THEN [exc |-> HTTPException(403, "Signature mismatch"),
             nonces |-> StoreNonce(ledger, key, nonce),
             trace |-> <<"keypair", "replay", "store", "verify">>]
       ELSE [exc |-> NoExc, nonces |-> StoreNonce(ledger, key, nonce),
             trace |-> <<"keypair", "replay", "verify", "store">>]

\* check_signature: the exception it raises (NoExc when it returns), the ledger
\* it leaves, and the steps it went through
check_signature(ledger, nonce, sender_hotkey, signature, receptor_uuid) ==
  IF ~ValidSS58(sender_hotkey)
  THEN [exc |-> PyException("ValueError: invalid ss58 address"), nonces |-> ledger,
        trace |-> <<"keypair">>]
  ELSE
    LET message == server_message(nonce, sender_hotkey, receptor_uuid)
        key == endpoint_key(sender_hotkey, receptor_uuid)
        verified == keypair_verify(sender_hotkey, message, signature)
    IN IF NonceTooSmall(ledger, key, nonce)
       THEN [exc |-> HTTPException(403, "Nonce is too small"), nonces |-> ledger,
             trace |-> <<"keypair", "replay">>]
       ELSE IF verified.raised
       THEN [exc |-> PyException("TypeError: signature is no hex-string"), nonces |-> ledger,
             trace |-> <<"keypair", "replay", "verify">>]
       ELSE IF ~verified.ok
       THEN [exc |-> HTTPException(403, "Signature mismatch"), nonces |-> ledger,
             trace |-> <<"keypair", "replay", "verify">>]
       ELSE [exc |-> NoExc, nonces |-> StoreNonce(ledger, key, nonce),
             trace |-> <<"keypair", "replay", "verify", "store">>]

\* JSONResponse({"detail": detail}, status_code = status_code)
JSONResponse(detail, status_code) ==
  [status_code |-> status_code, body |-> "detail", detail |-> detail]

NoResponse == [status_code |-> 0, body |-> "", detail |-> ""]

\* mutant: every exception is answered with 400
ErrorResponseAlways400(exc) == JSONResponse(exc.detail, 400)

\* the response of the except clauses of dispatch for an exception
ErrorResponse(exc) ==
  IF exc.type = "HTTPException" THEN JSONResponse(exc.detail, exc.status_code)
  ELSE JSONResponse(exc.detail, 400)

\* dispatch up to its await: either a response is returned (call_next FALSE)
\* or the request is handed to call_next
dispatch(ledger, request) ==
  LET metadata == [signature |-> request.signature, version |-> request.version]
      parsed == parse_signature(metadata)
  IN IF parsed.exc # NoExc
     THEN [call_next |-> FALSE, response |-> ErrorResponse(parsed.exc),
           nonces |-> ledger, trace |-> parsed.trace]
     ELSE
       LET checked == check_signature(ledger, parsed.parts.nonce,
                          parsed.parts.sender_hotkey, parsed.parts.signature,
                          parsed.parts.receptor_uuid)
       IN IF checked.exc # NoExc
          THEN [call_next |-> FALSE, response |-> ErrorResponse(checked.exc),
                nonces |-> checked.nonces, trace |-> parsed.trace \o checked.trace]
          ELSE [call_next |-> TRUE, response |-> NoResponse,
                nonces |-> checked.nonces,
                trace |-> parsed.trace \o checked.trace \o <<"call_next">>]

\* mutant: the root route is served without the interceptor
InterceptedExceptRoot(path) == path # "/"

\* add_middleware(FastAuthInterceptor, ...) wraps the whole app: every route,
\* whatever router added it, is served through dispatch
Intercepted(path) == TRUE

\* the route table of the app: "/" is axon.fast_api_info, the others are the
\* synapses' operations
RootPath == "/"
OperationPath == "/TextToEmbedding/Forward/"

call_next(request) ==
  IF request.path = RootPath
  THEN [status_code |-> 200, body |-> "descriptor", detail |-> ""]
  ELSE [status_code |-> 200, body |-> "result", detail |-> ""]

---------------------------------------------------------------------------
(* The requests clients and attackers send *)

SessionS == <<"s">>
SessionT == <<"t">>

SessionQ == <<"q">>

\* the (sender, session) pairs of the dendrites built for this axon (a
\* Dendrite draws its uuid once and serves one axon)
ClientPairs == {<<SenderA, SessionS>>, <<SenderA, SessionT>>, <<SenderB, SessionS>>}

\* a dendrite built for another axon
OtherAxonPair == <<SenderA, SessionQ>>

OtherSession(u) == IF u = SessionS THEN SessionT ELSE SessionS
OtherSender(s) == IF s = SenderA THEN SenderB ELSE SenderA

Nonces == 1..MaxNonce

\* A header and how it was made: n, s, u are the nonce, sender and session it
\* presents, r the receiver its signature was made for.
Hdr(signature, kind, n, s, u, r) ==
  [signature |-> signature, kind |-> kind, n |-> n, s |-> s, u |-> u, r |-> r]

ReplaceSession(header, u) ==
  LET p == Split(header) IN Join(<<p[1], p[2], p[3], u>>)

DropSession(header) ==
  LET p == Split(header) IN Join(<<p[1], p[2], p[3]>>)

Headers ==
  \* Dendrite.sign of the dendrites built for this axon
  {Hdr(sign(n, k[1], receiver_hotkey, k[2]), "signed", n, k[1], k[2], receiver_hotkey) :
      n \in Nonces, k \in ClientPairs}
  \cup
  \* Dendrite.sign of a dendrite built for another axon, sent here
  {Hdr(sign(n, OtherAxonPair[1], other_hotkey, OtherAxonPair[2]), "signed", n,
       OtherAxonPair[1], OtherAxonPair[2], other_hotkey) : n \in Nonces}
  \cup
  \* a signed header with its session field replaced
  {Hdr(ReplaceSession(sign(n, k[1], receiver_hotkey, OtherSession(k[2])), k[2]),
       "session_replaced", n, k[1], k[2], receiver_hotkey) :
      n \in Nonces, k \in ClientPairs}
  \cup
  \* a header signed by somebody else's keypair
  {Hdr(Join(<<IntToStr(n), k[1],
              keypair_sign(OtherSender(k[1]),
                           Join(<<IntToStr(n), k[1], receiver_hotkey, k[2]>>)),
              k[2]>>),
       "forged", n, k[1], k[2], receiver_hotkey) :
      n \in Nonces, k \in ClientPairs}
  \cup
  \* a nonce that is not written in plain decimal, signed as written
  {Hdr(sign_with(pre \o IntToStr(n), SenderA, receiver_hotkey, SessionS),
       "nonce_format", n, SenderA, SessionS, receiver_hotkey) :
      n \in Nonces, pre \in {<<"0">>, <<"+">>, <<" ">>}}
  \cup
  \* three fields, five fields, a nonce that is no integer
  {Hdr(DropSession(sign(n, SenderA, receiver_hotkey, SessionS)),
       "three_fields", n, SenderA, SessionS, receiver_hotkey) : n \in Nonces}
  \cup
  {Hdr(sign(n, SenderA, receiver_hotkey, SessionS \o <<".">> \o SessionT),
       "five_fields", n, SenderA, SessionS \o <<".">> \o SessionT, receiver_hotkey) :
      n \in Nonces}
  \cup
  {Hdr(sign_with(<<"x">>, SenderA, receiver_hotkey, SessionS),
       "nonce_not_int", 0, SenderA, SessionS, receiver_hotkey)}
  \cup
  \* no bittensor-signature header at all
  {Hdr(None, "missing", 0, << >>, << >>, receiver_hotkey)}
  \cup
  \* a sender field that is no address, a signature field that is no hex
  {Hdr(sign(n, BadAddress, receiver_hotkey, SessionS),
       "bad_address", n, BadAddress, SessionS, receiver_hotkey) : n \in Nonces}
  \cup
  {Hdr(Join(<<IntToStr(n), SenderA, <<"z", "z">>, SessionS>>),
       "bad_hex", n, SenderA, SessionS, receiver_hotkey) : n \in Nonces}

VersionOk == <<"5", "1", "0">>
VersionStale == <<"5", "0", "9">>

Req(path, version, h) ==
  [path |-> path, version |-> version, signature |-> h.signature, kind |-> h.kind,
   n |-> h.n, s |-> h.s, u |-> h.u, r |-> h.r]

\* the headers of well-behaved clients and of clients that send none
PlainHeaders == {h \in Headers : h.kind \in {"signed", "missing"}}

\* every header with a current and with a stale version on an operation's
\* route; plain headers also without a version, and on the root route
Requests ==
  {Req(OperationPath, v, h) : v \in {VersionOk, VersionStale}, h \in Headers}
  \cup {Req(OperationPath, None, h) : h \in PlainHeaders}
  \cup {Req(RootPath, VersionOk, h) : h \in PlainHeaders}

NoReq == Req("", None, Hdr(None, "", 0, << >>, << >>, << >>))

---------------------------------------------------------------------------
(* axon.priority_threadpool: the priority admission queue.  Its code
   (bittensor.prioritythreadpool) is not among the source files; it is
   modelled from section 4.2 of the specification. *)

CallIds == 1..MaxCalls

\* the task of a call that no longer waits for it, or of another call of the axon
Other == 0

\* the priorities of tasks
Priorities == 1..MaxPriority

\* what self.priority( call ) returns for the calls that are followed: the
\* lowest priority or the highest
CallPriorities == {1, MaxPriority}

NoSubmit == [admitted |-> 0, ok |-> TRUE, kept |-> TRUE]

NoDequeue == [at |-> 0, len |-> 0, overtook |-> {}]

EmptyPool ==
  [waiting |-> << >>, running |-> {}, others |-> 0,
   result |-> [c \in CallIds |-> "none"], workers |-> MaxWorkers,
   last_submit |-> NoSubmit, last_dequeue |-> NoDequeue]

\* tasks admitted: queued plus running
Admitted(p) == Len(p.waiting) + Cardinality(p.running) + p.others

\* a pool that admits whatever is submitted
AtCeilingNever(p) == FALSE

AtCeiling(p) == Admitted(p) >= MaxConcurrentRequests

\* submit(task): Overloaded at the ceiling, queued otherwise
PoolSubmit(p, t, priority) ==
  LET full == AtCeiling(p)
      q == IF full THEN p
           ELSE [p EXCEPT !.waiting = Append(@, [task |-> t, priority |-> priority]),
                          !.result = [c \in CallIds |-> IF c = t THEN "pending" ELSE @[c]]]
  IN [ok |-> ~full,
      pool |-> q]

\* a queue served in the order of arrival, whatever the priorities
NextTaskFifo(waiting) == 1

\* the task a free worker takes: the highest priority, the first submitted
\* among equal priorities
NextTask(waiting) ==
  CHOOSE i \in 1..Len(waiting) :
    \A j \in 1..Len(waiting) :
      \/ waiting[j].priority < waiting[i].priority
      \/ waiting[j].priority = waiting[i].priority /\ i <= j

RemoveAt(s, i) == [k \in 1..(Len(s) - 1) |-> IF k < i THEN s[k] ELSE s[k + 1]]

\* the waiting tasks that the task taken at position i went past although
\* they had a higher priority, or the same priority and an earlier submission
Overtaken(waiting, i) ==
  {j \in 1..Len(waiting) :
     \/ waiting[j].priority > waiting[i].priority
     \/ waiting[j].priority = waiting[i].priority /\ j < i}

\* a worker thread that dies with the exception of the handler it ran
WorkersAfterDying(workers, res) == IF res = "raised" THEN workers - 1 ELSE workers

\* a handler's exception is caught per task: the worker stays
WorkersAfter(workers, res) == workers

\* the call c is followed no longer: its task, if it still has one, stays
\* where it is, queued or running, as one more task of the axon
Abandon(p, c) ==
  [p EXCEPT !.waiting = [k \in 1..Len(@) |-> IF @[k].task = c
                                              THEN [@[k] EXCEPT !.task = Other] ELSE @[k]],
            !.running = @ \ {c},
            !.others = IF c \in p.running THEN @ + 1 ELSE @,
            !.result[c] = "none"]

\* whether a worker is free and a task is waiting
CanDequeue(p) ==
  /\ p.waiting # << >>
  /\ Cardinality(p.running) + p.others < p.workers

\* a free worker takes the next task
Dequeue(p) ==
  LET i == NextTask(p.waiting)
      t == p.waiting[i].task
  IN [p EXCEPT !.waiting = RemoveAt(@, i),
               !.running = IF t = Other THEN @ ELSE @ \cup {t},
               !.others = IF t = Other THEN @ + 1 ELSE @]

PoolDequeue ==
  /\ CanDequeue(pool)
  /\ pool' = Dequeue(pool)
  /\ UNCHANGED <<authVars, calls, denVars, axonVars>>

\* the same step of the pool (last_dequeue keeps the position of the task
\* taken, the number of tasks that waited, and the tasks it went past)
OtherDequeue ==
  /\ CanDequeue(pool)
  /\ LET i == NextTask(pool.waiting)
     IN pool' = [Dequeue(pool) EXCEPT !.last_dequeue =
                   [at |-> i, len |-> Len(pool.waiting),
                    overtook |-> Overtaken(pool.waiting, i)]]
  /\ UNCHANGED <<authVars, calls, denVars, axonVars>>

\* the callable of a call returns: it has written its result into the call
\* it belongs to (self.completion = self.forward_callback( ... ))
HandlerReturns(call) == [call EXCEPT !.payload = "filled"]

\* the handler of a running task returns or raises, and its future is resolved
PoolComplete(t) ==
  /\ IF t = Other THEN pool.others > 0 ELSE t \in pool.running
  /\ \E res \in {"returned", "raised"} :
       /\ pool' = [pool EXCEPT !.running = @ \ {t},
                               !.others = IF t = Other THEN @ - 1 ELSE @,
                               !.workers = WorkersAfter(@, res),
                               !.result = [c \in CallIds |-> IF c = t THEN res ELSE @[c]]]
       /\ calls' = IF t # Other /\ res = "returned"
                   THEN [calls EXCEPT ![t] = HandlerReturns(@)]
                   ELSE calls
  /\ UNCHANGED <<authVars, denVars, axonVars>>

\* another call of the axon submits its task to the pool (last_submit keeps
\* how many tasks were admitted when it did, and what submit answered)
OtherSubmit ==
  /\ \E priority \in Priorities :
       LET s == PoolSubmit(pool, Other, priority)
       IN pool' = [s.pool EXCEPT !.last_submit =
                     [admitted |-> Admitted(pool), ok |-> s.ok,
                      kept |-> /\ SubSeq(s.pool.waiting, 1, Len(pool.waiting)) = pool.waiting
                               /\ s.pool.others = pool.others]]
  /\ UNCHANGED <<authVars, calls, denVars, axonVars>>

---------------------------------------------------------------------------
(* Synapse.apply.  The statements are read in the order of the text; name(),
   the shape functions and the logging calls are taken to return. *)

\* what self.blacklist( call ) returns: the interface declares
\* Union[ Tuple[bool, str], bool ]
BlacklistReturns == {"(True, reason)", "(False, reason)", "False", "True"}

ReturnsPair(ret) == ret \in {"(True, reason)", "(False, reason)"}

\* a test that never takes the blacklisted branch
IsBlacklistedNever(ret) == FALSE

\* line 62: the truth of the first component of the pair
IsBlacklisted(ret) == ret = "(True, reason)"

\* BaseSynapseCall as created: return_code = 0, return_message = 'NotFilled'
\* (verifies and blacklist_ret record what verify() and blacklist() returned
\* once they have been called)
NewCall ==
  [pc |-> "log_request", verifies |-> FALSE, blacklist_ret |-> "",
   return_code |-> 0, return_message |-> "NotFilled", payload |-> "",
   reason_bound |-> FALSE, submitted |-> 0, request_logs |-> 0, response_logs |-> 0,
   logged_code |-> 0, priority_calls |-> 0, waited |-> ""]

NoCall == [NewCall EXCEPT !.pc = "none"]

\* an exception that leaves apply
UnknownErrorPropagates(call, text) == [call EXCEPT !.pc = "raised"]

\* an except clause that drops the text of the exception
UnknownErrorNoText(call, text) ==
  [call EXCEPT !.return_code = 22, !.return_message = "", !.pc = "finally"]

\* the except Exception clause, lines 86-89
UnknownError(call, text) ==
  [call EXCEPT !.return_code = 22, !.return_message = text, !.pc = "finally"]

\* a request arrives at a route of the synapse and apply is entered
SynReceive(c) ==
  /\ calls[c].pc \in {"none", "returned"}
  /\ calls' = [calls EXCEPT ![c] = NewCall]
  /\ UNCHANGED <<authVars, pool, denVars, axonVars>>

\* lines 40-52: the request entry of the log
SynLogRequest(c) ==
  /\ calls[c].pc = "log_request"
  /\ calls' = [calls EXCEPT ![c].request_logs = @ + 1, ![c].pc = "verify"]
  /\ UNCHANGED <<authVars, pool, denVars, axonVars>>

\* lines 55-57: call.verify() and, when it fails, the code and the message
SynVerify(c) ==
  /\ calls[c].pc = "verify"
  /\ \E verifies \in BOOLEAN :
       calls' = IF ~verifies
                THEN [calls EXCEPT ![c].return_code = 23,
                                   ![c].return_message = "Signature verification failed.",
                                   ![c].pc = "log_unverified"]
                ELSE [calls EXCEPT ![c].verifies = TRUE, ![c].pc = "blacklist"]
  /\ UNCHANGED <<authVars, pool, denVars, axonVars>>

\* line 58: the log line of the failed verification formats `reason`, a local
\* that is bound only by line 61; reading it unbound raises, and the
\* except Exception clause takes over
SynLogUnverified(c) ==
  /\ calls[c].pc = "log_unverified"
  /\ calls' = [calls EXCEPT ![c] =
                 IF calls[c].reason_bound THEN [@ EXCEPT !.pc = "finally"]
                 ELSE UnknownError(@, "local variable 'reason' referenced before assignment")]
  /\ UNCHANGED <<authVars, pool, denVars, axonVars>>

\* lines 61-65: blacklist, reason = self.blacklist( call ); unpacking a bare
\* bool raises TypeError
SynBlacklist(c) ==
  /\ calls[c].pc = "blacklist"
  /\ \E ret \in BlacklistReturns :
       LET call == [calls[c] EXCEPT !.blacklist_ret = ret]
       IN calls' = [calls EXCEPT ![c] =
                      IF ~ReturnsPair(ret)
                      THEN UnknownError(call, "cannot unpack non-iterable bool object")
                      ELSE IF IsBlacklisted(ret)
                      THEN [call EXCEPT !.reason_bound = TRUE, !.return_code = 25,
                                        !.return_message = "reason", !.pc = "finally"]
                      ELSE [call EXCEPT !.reason_bound = TRUE, !.pc = "submit"]]
  /\ UNCHANGED <<authVars, pool, denVars, axonVars>>

\* lines 70-75: the priority is computed and the callable is submitted; an
\* exception of submit is one more exception of the try block
SynSubmit(c) ==
  /\ calls[c].pc = "submit"
  /\ \E priority \in CallPriorities :
       LET s == PoolSubmit(pool, c, priority)
           call == [calls[c] EXCEPT !.priority_calls = @ + 1, !.submitted = @ + 1]
       IN /\ pool' = s.pool
          /\ calls' = [calls EXCEPT ![c] =
                         IF s.ok THEN [call EXCEPT !.pc = "wait"]
                         ELSE UnknownError([call EXCEPT !.waited = "overloaded"], "Overloaded")]
  /\ UNCHANGED <<authVars, denVars, axonVars>>

\* line 76: future.result( timeout = call.timeout ) returns: the callable has
\* run and has filled the call
SynResult(c) ==
  /\ calls[c].pc = "wait"
  /\ pool.result[c] = "returned"
  /\ calls' = [calls EXCEPT ![c].waited = "returned", ![c].pc = "finally"]
  /\ pool' = [pool EXCEPT !.result[c] = "none"]
  /\ UNCHANGED <<authVars, denVars, axonVars>>

\* a dispatcher that submits the callable again when it has raised
SynRaisedResubmits(c) ==
  /\ calls[c].pc = "wait"
  /\ pool.result[c] = "raised"
  /\ calls' = [calls EXCEPT ![c].waited = "raised", ![c].pc = "submit"]
  /\ pool' = [pool EXCEPT !.result[c] = "none"]
  /\ UNCHANGED <<authVars, denVars, axonVars>>

\* line 76 raises what the callable raised
SynRaised(c) ==
  /\ calls[c].pc = "wait"
  /\ pool.result[c] = "raised"
  /\ calls' = [calls EXCEPT ![c] =
                 UnknownError([@ EXCEPT !.waited = "raised"], "exception of the callable")]
  /\ pool' = [pool EXCEPT !.result[c] = "none"]
  /\ UNCHANGED <<authVars, denVars, axonVars>>

\* a wait without a timeout, future.result(): it ends only when the task does
SynWaitsForever(c) ==
  /\ calls[c].pc = "wait"
  /\ FALSE
  /\ UNCHANGED vars

\* line 76 raises concurrent.futures.TimeoutError while the task is queued or
\* running; the task stays in the pool with the call it will write to, nobody
\* waiting for it.  Whether the clause
\* except asyncio.TimeoutError (line 80) catches it depends on the Python the
\* code runs on: the two names are one class up to 3.7 and from 3.11 on, and
\* two classes from 3.8 to 3.10.
SynTimeout(c) ==
  /\ calls[c].pc = "wait"
  /\ pool.result[c] = "pending"
  /\ \E same_class \in BOOLEAN :
       calls' = [calls EXCEPT ![c] =
                   IF same_class
                   THEN [@ EXCEPT !.return_code = 2, !.waited = "timeout",
                                  !.return_message = "GRPC request timeout", !.pc = "finally"]
                   ELSE UnknownError([@ EXCEPT !.waited = "timeout"], "")]
  /\ UNCHANGED <<authVars, pool, denVars, axonVars>>

\* a finally block that returns the call without the response entry
SynFinallySilent(c) ==
  /\ calls[c].pc = "finally"
  /\ calls' = [calls EXCEPT ![c].pc = "returned"]
  /\ pool' = Abandon(pool, c)
  /\ UNCHANGED <<authVars, denVars, axonVars>>

\* lines 92-107: the response entry of the log, and the call is returned.
\* The call is followed up to its return: a task that a timeout has left in
\* the pool goes on as one more task of the axon.
SynFinally(c) ==
  /\ calls[c].pc = "finally"
  /\ calls' = [calls EXCEPT ![c].response_logs = @ + 1,
                            ![c].logged_code = calls[c].return_code,
                            ![c].pc = "returned"]
  /\ pool' = Abandon(pool, c)
  /\ UNCHANGED <<authVars, denVars, axonVars>>

NextSyn ==
  \/ \E c \in CallIds :
       \/ SynReceive(c)
       \/ SynLogRequest(c)
       \/ SynVerify(c)
       \/ SynLogUnverified(c)
       \/ SynBlacklist(c)
       \/ SynSubmit(c)
       \/ SynResult(c)
       \/ SynRaised(c)
       \/ SynTimeout(c)
       \/ SynFinally(c)
  \/ \E t \in CallIds \cup {Other} : PoolComplete(t)
  \/ PoolDequeue

\* the steps of apply for the call c, once entered
ApplyStep(c) ==
  \/ SynLogRequest(c)
  \/ SynVerify(c)
  \/ SynLogUnverified(c)
  \/ SynBlacklist(c)
  \/ SynSubmit(c)
  \/ SynResult(c)
  \/ SynRaised(c)
  \/ SynTimeout(c)
  \/ SynFinally(c)

\* one call is followed through apply, again and again; the other calls of
\* the axon are the load of the pool
NextOne ==
  \/ SynReceive(1)
  \/ ApplyStep(1)
  \/ OtherSubmit
  \/ PoolDequeue
  \/ \E t \in {1, Other} : PoolComplete(t)

\* the pool under the load of calls that are not followed one by one
NextPool ==
  \/ OtherSubmit
  \/ OtherDequeue
  \/ PoolComplete(Other)

---------------------------------------------------------------------------
(* Dendrite.apply *)

DendriteCallIds == 1..MaxDendriteCalls

\* bittensor.proto.ReturnCode.Success, the return_code of a new DendriteCall
\* (the value is that of the enumeration)
Success == 1

\* the statuses an axon answers with
StatusCodes == {200, 400, 403, 500}

\* no header signed yet
NoneSigned == [count |-> 0, prev |-> 0, last |-> 0]

\* Dendrite.nonce, line 204: time.monotonic_ns(), the reading of a clock
\* that cannot go backwards; two readings taken within its resolution are
\* the same number
monotonic_ns == clock

\* the nonces of the last two headers, after one more header is signed
Signed(s, n) ==
  [count |-> IF s.count < 2 THEN s.count + 1 ELSE 2, prev |-> s.last, last |-> n]

\* lines 167-168: httpx.AsyncClient() and client.post(url, headers, json) are
\* given no timeout, so the deadline of the request is the one httpx has by
\* default; dendrite_call.timeout is not read
TransportDeadline(call) == "httpx default"

\* DendriteCall.__init__: completed = False, return_code = Success,
\* return_message = 'Success'.  response_bound tells whether the local
\* `response` of apply is bound, e the exception caught, raising whether an
\* exception is on its way out of apply; failure and the counters record
\* what apply has done; deadline is the deadline the request was sent with,
\* reapplied whether the call has been through apply before.
NewDendriteCall ==
  [pc |-> "log_outbound", return_code |-> Success, return_message |-> "Success",
   completed |-> FALSE, timed |-> FALSE, response_bound |-> FALSE, status_code |-> 0,
   applied |-> FALSE, e |-> "", raising |-> FALSE, failure |-> "",
   ends |-> 0, outbound_logs |-> 0, inbound_logs |-> 0, returned |-> 0,
   deadline |-> "", reapplied |-> FALSE]

NoDendriteCall == [NewDendriteCall EXCEPT !.pc = "none"]

\* an exception raised in the try block: control goes to the except clause
Raise(call, failure, text) ==
  [call EXCEPT !.pc = "except", !.failure = failure, !.e = text]

\* an end() that leaves completed as it was
end_not_completed(call) ==
  [call EXCEPT !.ends = @ + 1, !.timed = TRUE]

\* DendriteCall.end: end_time, elapsed and completed
end(call) ==
  [call EXCEPT !.ends = @ + 1, !.timed = TRUE, !.completed = TRUE]

\* a finally block without its return: the exception on its way goes on
ReturnUnlessRaising(call, d) ==
  IF call.raising THEN [call EXCEPT !.pc = "raised"]
  ELSE [call EXCEPT !.pc = "returned", !.returned = d]

\* line 192: return dendrite_call, in the finally block: an exception on its
\* way out is dropped
Return_dendrite_call(call, d) ==
  [call EXCEPT !.pc = "returned", !.returned = d, !.raising = FALSE]

\* lines 182-186: return_code = response.status_code reads the local
\* `response`; when the exception came before line 168 bound it, the read
\* raises inside the except clause, and nothing is written to the call
Except(call) ==
  IF call.response_bound
  THEN [call EXCEPT !.return_code = call.status_code, !.return_message = call.e,
                    !.pc = "finally"]
  ELSE [call EXCEPT !.raising = TRUE, !.pc = "finally"]

\* apply is entered again with a call it has returned: apply does not look at
\* completed; the locals of apply and the record of what apply has done
\* start anew, the fields of the call are as the first apply left them
Reapply(call) ==
  [call EXCEPT !.pc = "log_outbound", !.reapplied = TRUE, !.response_bound = FALSE,
               !.status_code = 0, !.e = "", !.raising = FALSE, !.failure = "",
               !.ends = 0, !.outbound_logs = 0, !.inbound_logs = 0, !.returned = 0,
               !.deadline = ""]

\* apply is entered with a new call, or with a call it has returned before
DenApply(d) ==
  /\ \/ /\ dcalls[d].pc \in {"none", "returned"}
        /\ dcalls' = [dcalls EXCEPT ![d] = NewDendriteCall]
     \/ /\ dcalls[d].pc = "returned"
        /\ dcalls' = [dcalls EXCEPT ![d] = Reapply(@)]
  /\ UNCHANGED <<authVars, synVars, clock, signedNonces, axonVars>>

\* line 152
DenLogOutbound(d) ==
  /\ dcalls[d].pc = "log_outbound"
  /\ dcalls' = [dcalls EXCEPT ![d].outbound_logs = @ + 1, ![d].pc = "headers"]
  /\ UNCHANGED <<authVars, synVars, clock, signedNonces, axonVars>>

\* lines 154-163: the headers with self.sign(), the payload and the url; each
\* is code that may raise (a keypair without a private key, the call's own
\* get_fastapi_request_payload, the call's route).  A sign() that returns has
\* put one reading of nonce() into a header.
DenPrepare(d) ==
  /\ dcalls[d].pc = "headers"
  /\ \E failure \in {"", "sign", "payload", "url"} :
       /\ dcalls' = [dcalls EXCEPT ![d] =
                       IF failure = "" THEN [@ EXCEPT !.pc = "post"]
                       ELSE Raise(@, failure, failure)]
       /\ signedNonces' = IF failure = "sign" THEN signedNonces
                         ELSE Signed(signedNonces, monotonic_ns)
  /\ UNCHANGED <<authVars, synVars, clock, axonVars>>

\* lines 167-168: the request is sent; a response arrives, or the transport
\* fails, or its deadline passes
DenPost(d) ==
  /\ dcalls[d].pc = "post"
  /\ \/ \E status_code \in StatusCodes :
          dcalls' = [dcalls EXCEPT ![d].response_bound = TRUE,
                                   ![d].status_code = status_code,
                                   ![d].deadline = TransportDeadline(dcalls[d]),
                                   ![d].pc = "status"]
     \/ \E failure \in {"transport", "deadline"} :
          dcalls' = [dcalls EXCEPT ![d] =
                       Raise([@ EXCEPT !.deadline = TransportDeadline(dcalls[d])],
                             failure, failure)]
  /\ UNCHANGED <<authVars, synVars, clock, signedNonces, axonVars>>

\* lines 172-178: a 200 response is decoded and applied to the call (code
\* that may raise); any other status raises Exception(response.text)
DenStatus(d) ==
  /\ dcalls[d].pc = "status"
  /\ IF dcalls[d].status_code = 200
     THEN \E decodes \in BOOLEAN :
            dcalls' = [dcalls EXCEPT ![d] =
                         IF decodes THEN [@ EXCEPT !.applied = TRUE, !.pc = "finally"]
                         ELSE Raise(@, "body", "body")]
     ELSE dcalls' = [dcalls EXCEPT ![d] = Raise(@, "status", "response.text")]
  /\ UNCHANGED <<authVars, synVars, clock, signedNonces, axonVars>>

\* lines 182-186
DenExcept(d) ==
  /\ dcalls[d].pc = "except"
  /\ dcalls' = [dcalls EXCEPT ![d] = Except(@)]
  /\ UNCHANGED <<authVars, synVars, clock, signedNonces, axonVars>>

\* lines 188-192: end(), log_inbound(), elapsed_time, return dendrite_call
DenFinally(d) ==
  /\ dcalls[d].pc = "finally"
  /\ dcalls' = [dcalls EXCEPT ![d] =
                  Return_dendrite_call([end(@) EXCEPT !.inbound_logs = @ + 1], d)]
  /\ UNCHANGED <<authVars, synVars, clock, signedNonces, axonVars>>

\* time passes
Tick ==
  /\ clock < MaxClock
  /\ clock' = clock + 1
  /\ UNCHANGED <<authVars, synVars, dcalls, signedNonces, axonVars>>

NextDen ==
  \/ \E d \in DendriteCallIds :
       \/ DenApply(d)
       \/ DenLogOutbound(d)
       \/ DenPrepare(d)
       \/ DenPost(d)
       \/ DenStatus(d)
       \/ DenExcept(d)
       \/ DenFinally(d)
  \/ Tick

---------------------------------------------------------------------------
(* axon.__init__ and axon.check_config *)

\* an argument of __init__ that is not given, a setting of the config that
\* is None
NoPort == 0

\* the ports given to __init__: around both ends of the range
Ports == {1024, 1025, 65534, 65535}

\* add_defaults, lines 301-316, with no variable of the environment set
DefaultConfig ==
  [port |-> 8091, external_port |-> NoPort, fast_api_port |-> 8092,
   external_fast_api_port |-> NoPort]

AxonArgs ==
  [port : Ports \cup {NoPort}, external_port : Ports \cup {NoPort},
   fast_api_port : Ports \cup {NoPort}, external_fast_api_port : Ports \cup {NoPort}]

\* lines 152-163: an argument that is given replaces the setting of the config
MergeConfig(config, args) ==
  [port |-> IF args.port # NoPort THEN args.port ELSE config.port,
   external_port |-> IF args.external_port # NoPort THEN args.external_port
                     ELSE config.external_port,
   fast_api_port |-> IF args.fast_api_port # NoPort THEN args.fast_api_port
                     ELSE config.fast_api_port,
   external_fast_api_port |->
     IF args.external_fast_api_port # NoPort THEN args.external_fast_api_port
     ELSE config.external_fast_api_port]

\* lines 336-344: the two assertions of check_config
check_config(config) ==
  /\ config.port > 1024 /\ config.port < 65535
  /\ \/ config.external_port = NoPort
     \/ config.external_port > 1024 /\ config.external_port < 65535

NoAxon == [status |-> "none", config |-> DefaultConfig, started |-> FALSE]

\* the threads a FastAPIThreadedServer may have spawned
Threads == 1..MaxThreads

\* what the last call of axon.start or axon.stop found, until a thread moves
NoOp == [op |-> "", started |-> FALSE, is_running |-> FALSE, should_exit |-> FALSE,
         threads |-> [t \in Threads |-> "none"]]

\* lines 45-46: the flags of a FastAPIThreadedServer as constructed; it has
\* spawned no thread
NewServer ==
  [exists |-> TRUE, is_running |-> FALSE, should_exit |-> FALSE,
   threads |-> [t \in Threads |-> "none"], last |-> NoOp]

\* an axon whose __init__ has not reached line 208 has no server attribute
NoServer == [NewServer EXCEPT !.exists = FALSE]

\* axon.__init__: the config is built and checked; a failed assertion leaves
\* __init__ and no axon exists
AxonInit(args) ==
  /\ axon.status = "none"
  /\ LET config == MergeConfig(DefaultConfig, args)
     IN /\ axon' = [status |-> IF check_config(config) THEN "constructed" ELSE "rejected",
                    config |-> config, started |-> FALSE]
        /\ server' = IF check_config(config) THEN NewServer ELSE NoServer
  /\ UNCHANGED <<authVars, synVars, denVars, routed>>

\* the program goes on to construct another axon
AxonAgain ==
  /\ axon.status # "none"
  /\ axon' = NoAxon
  /\ server' = NoServer
  /\ UNCHANGED <<authVars, synVars, denVars, routed>>

NextAxon ==
  \/ \E args \in AxonArgs : AxonInit(args)
  \/ AxonAgain

---------------------------------------------------------------------------
(* FastAPIThreadedServer and axon.start / axon.stop *)

\* threading.Thread(target=self._wrapper_run, daemon=True).start(): one more
\* thread, which has yet to bring the server up
Spawn(threads) ==
  IF \E t \in Threads : threads[t] = "none"
  THEN LET t == CHOOSE t \in Threads :
                  threads[t] = "none" /\ \A u \in Threads : threads[u] = "none" => t <= u
       IN [threads EXCEPT ![t] = "starting"]
  ELSE threads

\* a start that spawns a thread whether or not one is running
server_start_always(s) ==
  [s EXCEPT !.should_exit = FALSE, !.threads = Spawn(@), !.is_running = TRUE]

\* FastAPIThreadedServer.start, lines 68-73
server_start(s) ==
  IF ~s.is_running
  THEN [s EXCEPT !.should_exit = FALSE, !.threads = Spawn(@), !.is_running = TRUE]
  ELSE s

\* FastAPIThreadedServer.stop, lines 75-77: is_running is left as it is
server_stop(s) ==
  IF s.is_running THEN [s EXCEPT !.should_exit = TRUE] ELSE s

\* the flags and the threads a call of start or stop finds
Found(op) ==
  [op |-> op, started |-> axon.started, is_running |-> server.is_running,
   should_exit |-> server.should_exit, threads |-> server.threads]

\* axon.start, lines 361-367
AxonStart ==
  /\ axon.status = "constructed"
  /\ server' = [server_start(server) EXCEPT !.last = Found("start")]
  /\ axon' = [axon EXCEPT !.started = TRUE]
  /\ UNCHANGED <<authVars, synVars, denVars, routed>>

\* axon.stop, lines 369-373, called by the program or by __del__: an axon
\* whose __init__ was left by an assertion has no server to stop
AxonStop ==
  /\ axon.status # "none"
  /\ server' = [(IF server.exists THEN server_stop(server) ELSE server)
                  EXCEPT !.last = Found("stop")]
  /\ axon' = [axon EXCEPT !.started = FALSE]
  /\ UNCHANGED <<authVars, synVars, denVars, routed>>

\* run_in_thread, lines 52-57: the inner thread runs uvicorn's Server.run,
\* the wrapper waits until the server has started, and _wrapper_run enters
\* its loop
ThreadStartup(t) ==
  /\ server.threads[t] = "starting"
  /\ server' = [server EXCEPT !.threads[t] = "serving", !.last = NoOp]
  /\ UNCHANGED <<authVars, synVars, denVars, axon, routed>>

\* lines 59-61 and 65: the loop of _wrapper_run ends once should_exit is set,
\* uvicorn's main loop ends on the same flag, and the threads are joined
ThreadExit(t) ==
  /\ server.threads[t] = "serving"
  /\ server.should_exit
  /\ server' = [server EXCEPT !.threads[t] = "exited", !.last = NoOp]
  /\ UNCHANGED <<authVars, synVars, denVars, axon, routed>>

NextServer ==
  \/ \E args \in AxonArgs : AxonInit(args)
  \/ AxonStart
  \/ AxonStop
  \/ \E t \in Threads : ThreadStartup(t)
  \/ \E t \in Threads : ThreadExit(t)

---------------------------------------------------------------------------
(* State *)

\* what is known of the last run of accepted / replayed requests
NoStreak == [step |-> 0, req |-> NoReq]

NoPrev == [has |-> FALSE, val |-> 0]

\* no call has been built
NoRouted == [built |-> FALSE, hotkey |-> << >>, sender |-> << >>]

Idle ==
  [stage |-> "idle", req |-> NoReq, call_next |-> FALSE, response |-> NoResponse,
   trace |-> << >>, prev |-> NoPrev, changed |-> FALSE, before |-> NoStreak]

\* the last nonce accepted for a (sender, session) pair, as the requests
\* themselves tell it (not read from the ledger)
PrevAccepted(pair) ==
  IF pair \in DOMAIN maxAcc THEN [has |-> TRUE, val |-> maxAcc[pair]] ELSE NoPrev

Init ==
  /\ nonces = << >>
  /\ cur = Idle
  /\ maxAcc = << >>
  /\ streak = NoStreak
  /\ inflight = << >>
  /\ calls = [c \in CallIds |-> NoCall]
  /\ pool = EmptyPool
  /\ dcalls = [d \in DendriteCallIds |-> NoDendriteCall]
  /\ clock = 1
  /\ signedNonces = NoneSigned
  /\ axon = NoAxon
  /\ server = NoServer
  /\ routed = NoRouted

\* One request goes through FastAuthInterceptor.dispatch up to its await:
\* the code between line 410 and line 431 has no await, so it runs as one step
\* of the event loop.
\* what the app does with a request before any route handler runs
Intercept(ledger, req) ==
  IF Intercepted(req.path) THEN dispatch(ledger, req)
  ELSE [call_next |-> TRUE, response |-> NoResponse, nonces |-> ledger,
        trace |-> <<"call_next">>]

Dispatch(req) ==
  /\ cur.stage = "idle"
  /\ LET d == Intercept(nonces, req)
         pair == <<req.s, req.u>>
     IN /\ nonces' = d.nonces
        /\ cur' = [stage |-> IF d.call_next THEN "call_next" ELSE "responded",
                   req |-> req, call_next |-> d.call_next, response |-> d.response,
                   trace |-> d.trace, prev |-> PrevAccepted(pair),
                   changed |-> d.nonces # nonces, before |-> streak]
        /\ maxAcc' = IF d.call_next
                     THEN [k \in DOMAIN maxAcc \cup {pair} |->
                             IF k = pair THEN req.n ELSE maxAcc[k]]
                     ELSE maxAcc
        /\ streak' = IF d.call_next THEN [step |-> 1, req |-> req]
                     ELSE IF streak.step = 1 /\ req = streak.req
                     THEN [step |-> 2, req |-> req]
                     ELSE NoStreak
  /\ UNCHANGED <<inflight, calls, pool, denVars, axonVars>>

\* response = await call_next(request): the route's handler runs
CallNext ==
  /\ cur.stage = "call_next"
  /\ cur' = [cur EXCEPT !.stage = "responded", !.response = call_next(cur.req)]
  /\ UNCHANGED <<nonces, maxAcc, streak, inflight, calls, pool, denVars, axonVars>>

\* the response is returned to the client
Return ==
  /\ cur.stage = "responded"
  /\ cur' = Idle
  /\ UNCHANGED <<nonces, maxAcc, streak, inflight, calls, pool, denVars, axonVars>>

\* the hotkeys a request's body may name
BodyHotkeys == {SenderA, SenderB}

\* forward_text_to_embedding( self, call: TextToEmbeddingCall ): the call,
\* its hotkey with it, is parsed from the body of the request (sender
\* records the sender of the signature header the interceptor checked)
CallOfBody(request, hotkey) ==
  [built |-> TRUE, hotkey |-> hotkey, sender |-> request.s]

\* response = await call_next(request), with the call the handler of an
\* operation's route is given
CallNextRoute(hotkey) ==
  /\ cur.stage = "call_next"
  /\ cur' = [cur EXCEPT !.stage = "responded", !.response = call_next(cur.req)]
  /\ routed' = IF cur.req.path = OperationPath THEN CallOfBody(cur.req, hotkey)
               ELSE NoRouted
  /\ UNCHANGED <<nonces, maxAcc, streak, inflight, calls, pool, denVars, axon, server>>

\* the response is returned to the client and the call is dropped
ReturnRoute ==
  /\ cur.stage = "responded"
  /\ cur' = Idle
  /\ routed' = NoRouted
  /\ UNCHANGED <<nonces, maxAcc, streak, inflight, calls, pool, denVars, axon, server>>

NextRoute ==
  \/ \E req \in Requests : Dispatch(req)
  \/ \E hotkey \in BodyHotkeys : CallNextRoute(hotkey)
  \/ ReturnRoute

Next ==
  \/ \E req \in Requests : Dispatch(req)
  \/ CallNext
  \/ Return

Spec == Init /\ [][Next]_vars

SpecSyn == Init /\ [][NextSyn]_vars

SpecPool == Init /\ [][NextPool]_vars

\* the thread that runs apply for a call goes on running, and the wait of
\* line 76 ends when its timeout has passed; nothing is assumed of the
\* handlers: a task may stay queued or running for ever
SpecSynLive == Init /\ [][NextOne]_vars /\ WF_vars(ApplyStep(1))

SpecDen == Init /\ [][NextDen]_vars

SpecAxon == Init /\ [][NextAxon]_vars

SpecServer == Init /\ [][NextServer]_vars

SpecRoute == Init /\ [][NextRoute]_vars

---------------------------------------------------------------------------
(* Requests served concurrently: a request let through stays at its
   await call_next while the event loop dispatches others *)

\* the requests with a current version on an operation's route
ConcRequests == {r \in Requests : r.path = OperationPath /\ r.version = VersionOk}

ConcDispatch(req) ==
  /\ Len(inflight) < MaxInflight
  /\ LET d == Intercept(nonces, req)
     IN /\ nonces' = d.nonces
        /\ inflight' = IF d.call_next
                       THEN Append(inflight, [s |-> req.s, u |-> req.u, n |-> req.n])
                       ELSE inflight
  /\ UNCHANGED <<cur, maxAcc, streak, calls, pool, denVars, axonVars>>

\* the handler of the i-th waiting request returns; handlers return in any order
ConcReturn(i) ==
  /\ i \in 1..Len(inflight)
  /\ inflight' = SubSeq(inflight, 1, i - 1) \o SubSeq(inflight, i + 1, Len(inflight))
  /\ UNCHANGED <<nonces, cur, maxAcc, streak, calls, pool, denVars, axonVars>>

NextConc ==
  \/ \E req \in ConcRequests : ConcDispatch(req)
  \/ \E i \in 1..MaxInflight : ConcReturn(i)

SpecConc == Init /\ [][NextConc]_vars

---------------------------------------------------------------------------
(* Claims about FastAuthInterceptor *)

Processed == cur.stage # "idle"

InTrace(step) == \E i \in 1..Len(cur.trace) : cur.trace[i] = step

\* the presented nonce does not exceed the last nonce let through for its pair
IsReplay == cur.prev.has /\ cur.req.n <= cur.prev.val

\* a header Dendrite.sign made for this axon, sent with a current version
WellSigned ==
  /\ cur.req.kind = "signed"
  /\ cur.req.r = receiver_hotkey
  /\ cur.req.version = VersionOk

Rejected(status_code) ==
  /\ ~cur.call_next
  /\ cur.response.status_code = status_code
  /\ cur.response.body = "detail"

\* C1: per (sender, session) the nonces of the requests let through are
\* strictly increasing, and a request that reaches check_signature with a
\* nonce less than or equal to the last one let through is rejected with 403,
\* the tie included.
C1_NonceMonotonic ==
  Processed =>
    /\ (cur.call_next /\ cur.prev.has => cur.req.n > cur.prev.val)
    /\ (InTrace("keypair") /\ IsReplay => Rejected(403))

C1_Witness ==
  /\ Processed /\ WellSigned
  /\ cur.prev.has /\ cur.req.n = cur.prev.val
  /\ Rejected(403)

\* C2: the retry of a request that was just let through is rejected with 403,
\* and after that rejected retry a well signed request of the same session
\* with a greater nonce is let through and served.
C2_ReplayThenRecovery ==
  Processed =>
    /\ (cur.before.step = 1 /\ cur.req = cur.before.req => Rejected(403))
    /\ (/\ cur.before.step = 2
        /\ WellSigned
        /\ cur.req.s = cur.before.req.s /\ cur.req.u = cur.before.req.u
        /\ cur.req.n > cur.before.req.n
        => cur.call_next /\ (cur.stage = "responded" => cur.response.status_code = 200))

C2_Witness ==
  /\ cur.stage = "responded"
  /\ cur.before.step = 2
  /\ WellSigned
  /\ cur.req.s = cur.before.req.s /\ cur.req.u = cur.before.req.u
  /\ cur.req.n = cur.before.req.n + 1
  /\ cur.call_next /\ cur.response.status_code = 200

\* C3: of the requests of one (sender, session) that are being served at the
\* same time, one let through later has a strictly greater nonce than one
\* let through earlier: no two are let through with the same or a lower nonce.
C3_AtomicCheckAndAdvance ==
  \A i, j \in 1..Len(inflight) :
    (i < j /\ inflight[i].s = inflight[j].s /\ inflight[i].u = inflight[j].u)
      => inflight[i].n < inflight[j].n

C3_Witness ==
  /\ Len(inflight) >= 2
  /\ inflight[1].s = inflight[2].s /\ inflight[1].u = inflight[2].u

\* a header whose signature is over another receiver or another session than
\* the ones the server rebuilds the message from
Tampered ==
  /\ cur.req.version = VersionOk
  /\ \/ cur.req.kind = "signed" /\ cur.req.r # receiver_hotkey
     \/ cur.req.kind = "session_replaced"

\* C4 as stated: a fresh header of Dendrite.sign is let through; a header made
\* for another receiver, or with its session replaced, is always rejected
\* with a signature mismatch.
C4_Original ==
  Processed =>
    /\ (WellSigned /\ ~IsReplay => cur.call_next)
    /\ (Tampered => Rejected(403) /\ cur.response.detail = "Signature mismatch")

\* C4 amended: a fresh header of Dendrite.sign is let through; a header made
\* for another receiver, or with its session replaced, is always rejected with
\* 403: as a signature mismatch when its nonce is fresh for the pair it
\* presents, as a nonce that is too small otherwise.
C4_SignVerifyRoundTrip ==
  Processed =>
    /\ (WellSigned /\ ~IsReplay => cur.call_next)
    /\ (Tampered =>
          /\ Rejected(403)
          /\ cur.response.detail =
               IF IsReplay THEN "Nonce is too small" ELSE "Signature mismatch")

C4_Witness ==
  /\ Processed
  /\ cur.req.kind = "session_replaced" /\ cur.req.version = VersionOk
  /\ Rejected(403)
  /\ cur.response.detail = "Nonce is too small"

FullTrace ==
  <<"get", "version", "parse_v2", "keypair", "replay", "verify", "store", "call_next">>

\* C5: a route handler runs only for a request whose header was parsed and
\* that passed the replay check and the signature check; a request answered
\* with an error never reached a handler.
C5_AuthenticationGate ==
  Processed =>
    /\ (cur.call_next => WellSigned /\ ~IsReplay /\ cur.trace = FullTrace)
    /\ (cur.response.body \in {"descriptor", "result"} => cur.call_next)
    /\ (cur.response.body = "detail" => ~cur.call_next /\ ~InTrace("call_next"))

C5_Witness ==
  /\ cur.stage = "responded" /\ cur.call_next
  /\ cur.response.status_code = 200 /\ cur.response.body = "result"

BadShape == cur.req.kind \in {"three_fields", "five_fields", "nonce_not_int"}

\* C6: a header with another number of fields than four, or with a first
\* field that is no integer, is answered with 400, none of its fields is used,
\* no handler runs and the ledger is left as it was.
C6_HeaderShape ==
  Processed /\ BadShape =>
    /\ Rejected(400)
    /\ ~cur.changed
    /\ ~InTrace("keypair") /\ ~InTrace("replay") /\ ~InTrace("verify")
    /\ (cur.req.version = VersionOk => cur.response.detail = "Unknown signature format")

C6_Witness ==
  /\ Processed /\ cur.req.kind = "five_fields" /\ cur.req.version = VersionOk
  /\ Rejected(400) /\ cur.response.detail = "Unknown signature format"
  /\ DOMAIN nonces # {}

Missing == cur.req.kind = "missing"

Malformed == BadShape \/ cur.req.kind \in {"bad_address", "bad_hex"}

\* the signature is not one of the sender over the message the server rebuilds
CryptoFails ==
  \/ cur.req.kind \in {"forged", "session_replaced", "nonce_format"}
  \/ cur.req.kind = "signed" /\ cur.req.r # receiver_hotkey

\* C8 as stated: a rejection is a {"detail": ...} response with status 400
\* exactly when the signature is missing or malformed or the version is
\* stale, and 403 exactly when the nonce is a replay or the signature cannot
\* be verified.
C8_Original ==
  Processed /\ ~cur.call_next =>
    /\ cur.response.body = "detail"
    /\ cur.response.status_code \in {400, 403}
    /\ (cur.response.status_code = 400
          <=> (Missing \/ Malformed \/ cur.req.version = VersionStale))
    /\ (cur.response.status_code = 403
          <=> (/\ ~(Missing \/ Malformed \/ cur.req.version = VersionStale)
               /\ (IsReplay \/ CryptoFails)))

\* an exception other than HTTPException is raised on the way: the version
\* header is absent, the sender is no address, or the signature field of a
\* request that is no replay is no hex string
Uncheckable ==
  \/ cur.req.version = None
  \/ cur.req.kind = "bad_address"
  \/ cur.req.kind = "bad_hex" /\ ~IsReplay

\* C8 amended: a rejection is a {"detail": ...} response with status 400 or
\* 403: 400 exactly when the signature header is missing or of the wrong
\* shape, the version is stale or absent, the sender is no address, or the
\* signature field of a request that is no replay is no hex string; 403
\* exactly when none of these holds and the nonce is a replay or the
\* signature does not verify.
C8_StatusMapping ==
  Processed /\ ~cur.call_next =>
    /\ cur.response.body = "detail"
    /\ cur.response.status_code \in {400, 403}
    /\ (cur.response.status_code = 400
          <=> (Missing \/ BadShape \/ cur.req.version = VersionStale \/ Uncheckable))
    /\ (cur.response.status_code = 403
          <=> (/\ ~(Missing \/ BadShape \/ cur.req.version = VersionStale \/ Uncheckable)
               /\ (IsReplay \/ CryptoFails)))

C8_Witness ==
  /\ Processed /\ cur.req.kind = "signed" /\ cur.req.r = receiver_hotkey
  /\ cur.req.version = None
  /\ Rejected(400)

\* C9 as stated: a request to "/" without a signature header still receives
\* the descriptor.
C9_Original ==
  (cur.stage = "responded" /\ cur.req.path = RootPath /\ Missing)
    => cur.response.status_code = 200 /\ cur.response.body = "descriptor"

\* C9 amended: the route "/" is served through the interceptor like every
\* other route: it returns the descriptor exactly to the requests that the
\* interceptor lets through, and a request without a signature header is
\* answered with 400 Request signature missing.
C9_RootIsAuthenticated ==
  (cur.stage = "responded" /\ cur.req.path = RootPath) =>
    /\ (cur.response.body = "descriptor" <=> cur.call_next)
    /\ (cur.call_next => WellSigned /\ ~IsReplay)
    /\ (Missing => Rejected(400) /\ cur.response.detail = "Request signature missing")

C9_Witness ==
  /\ cur.stage = "responded" /\ cur.req.path = RootPath /\ Missing
  /\ Rejected(400) /\ cur.response.detail = "Request signature missing"

---------------------------------------------------------------------------
(* Claims about Synapse.apply *)

\* C10: a call whose verification fails is returned with return_code 23
\* (VerificationFailed), whatever the blacklist function would return, and
\* its callable is never submitted to the pool.
C10_VerificationFailure ==
  \A c \in CallIds :
    (calls[c].pc = "returned" /\ ~calls[c].verifies) =>
      /\ calls[c].return_code = 23
      /\ calls[c].submitted = 0

\* the part of C10 the code keeps: the callable of an unverified call is
\* never submitted
C10_NotSubmitted ==
  \A c \in CallIds : ~calls[c].verifies => calls[c].submitted = 0 /\ pool.result[c] = "none"

\* the call has left the try block: its outcome is on the envelope
Finalized(c) == calls[c].pc \in {"finally", "returned"}

\* C11: when verification passes and blacklist returns (True, reason), the
\* call is finalized with return_code 25 (Blacklisted) and return_message =
\* reason; priority is not evaluated and nothing is submitted to the pool.
C11_Blacklisted ==
  \A c \in CallIds :
    (calls[c].verifies /\ calls[c].blacklist_ret = "(True, reason)") =>
      /\ calls[c].priority_calls = 0
      /\ calls[c].submitted = 0
      /\ pool.result[c] = "none"
      /\ Finalized(c)
      /\ calls[c].return_code = 25
      /\ calls[c].return_message = "reason"

C11_Witness ==
  \E c \in CallIds :
    /\ calls[c].pc = "returned"
    /\ calls[c].verifies /\ calls[c].blacklist_ret = "(True, reason)"
    /\ calls[c].logged_code = 25

\* C12: when the wait on the future of an admitted handler ends by the
\* timeout, the call is finalized with return_code 2 (Timeout), never with
\* 22 (UnknownError), whether or not the handler completes later.
C12_TimeoutIndependence ==
  \A c \in CallIds :
    (Finalized(c) /\ calls[c].waited = "timeout") => calls[c].return_code = 2

C14_OverloadedDistinct ==
  \A c \in CallIds :
    (Finalized(c) /\ calls[c].waited = "overloaded") => calls[c].return_code # 22

\* C15: the tasks admitted (queued plus running) never exceed
\* MaxConcurrentRequests; a submission made at the ceiling is refused and one
\* made below it is admitted, and either leaves the admitted tasks as they were.
C15_AdmissionCeiling ==
  /\ Admitted(pool) <= MaxConcurrentRequests
  /\ pool.last_submit.ok <=> pool.last_submit.admitted < MaxConcurrentRequests
  /\ pool.last_submit.kept

C15_Witness ==
  /\ ~pool.last_submit.ok
  /\ pool.last_submit.admitted = MaxConcurrentRequests
  /\ Admitted(pool) = MaxConcurrentRequests

\* C16: the task a free worker takes has the highest priority among the
\* waiting tasks and, among those of its priority, the earliest submission:
\* it goes past no task of higher priority and no earlier task of its priority.
C16_PriorityOrdering == pool.last_dequeue.overtook = {}

\* a task submitted later was taken before an earlier one of lower priority
C16_Witness ==
  /\ pool.last_dequeue.len >= 2
  /\ pool.last_dequeue.at >= 2

\* a failure of one of the kinds apply handles
Failed(c) ==
  \/ ~calls[c].verifies
  \/ calls[c].blacklist_ret # "(False, reason)"
  \/ calls[c].waited \in {"timeout", "raised", "overloaded"}

---------------------------------------------------------------------------
(* Claims about Dendrite.apply *)

\* C18: the response is applied to the call only when the status is 200,
\* and is applied when a 200 response is handled without failure; after any
\* other status, and after any failure before a response exists, the call
\* is returned with return_code UnknownError (22) or Timeout (2), never
\* Success, and with the failure's detail as return_message.
C18_ClientFailureClassification ==
  \A d \in DendriteCallIds :
    dcalls[d].pc = "returned" =>
      /\ dcalls[d].applied => (dcalls[d].response_bound /\ dcalls[d].status_code = 200)
      /\ (dcalls[d].status_code = 200 /\ dcalls[d].failure = "") => dcalls[d].applied
      /\ dcalls[d].failure # "" =>
           /\ dcalls[d].return_code \in {22, 2}
           /\ dcalls[d].return_message = dcalls[d].e

\* C19: on every way out of apply end() has run exactly once (completed is
\* true, the timing fields are set) and the inbound entry is logged exactly
\* once, after the outbound one; neither happens before the finally block.
C19_ClientFinalization ==
  \A d \in DendriteCallIds :
    /\ dcalls[d].pc \in {"returned", "raised"} =>
         /\ dcalls[d].ends = 1
         /\ dcalls[d].completed /\ dcalls[d].timed
         /\ dcalls[d].inbound_logs = 1
         /\ dcalls[d].outbound_logs = 1
    /\ dcalls[d].pc \notin {"returned", "raised"} =>
         /\ dcalls[d].ends = 0
         /\ dcalls[d].inbound_logs = 0
         /\ ~dcalls[d].reapplied => ~dcalls[d].completed

\* a call that went out by way of the except clause, after a status other
\* than 200, and is returned
C19_Witness ==
  \E d \in DendriteCallIds :
    /\ dcalls[d].pc = "returned" /\ dcalls[d].failure = "status"
    /\ dcalls[d].ends = 1 /\ dcalls[d].completed

\* C20: apply returns the call it was given and no exception leaves it,
\* whatever failed.
C20_ClientNeverRaises ==
  \A d \in DendriteCallIds :
    /\ dcalls[d].pc # "raised"
    /\ dcalls[d].pc = "returned" => (dcalls[d].returned = d /\ ~dcalls[d].raising)

\* the transport failed, the except clause itself raised, and the call is returned
C20_Witness ==
  \E d \in DendriteCallIds :
    /\ dcalls[d].pc = "returned"
    /\ dcalls[d].failure = "transport"
    /\ ~dcalls[d].response_bound
    /\ dcalls[d].returned = d

\* C21: the nonces of the headers one Dendrite signs are different and
\* strictly increasing: each header's nonce is greater than that of the
\* header signed before it, also when the two are signed back to back.
C21_NonceFreshness ==
  signedNonces.count >= 2 => signedNonces.prev < signedNonces.last

\* C22: the request is sent with the call's timeout as the deadline of the
\* transport.
C22_ClientDeadline ==
  \A d \in DendriteCallIds :
    dcalls[d].deadline \in {"", "dendrite_call.timeout"}

\* C23: once completed is true, return_code and return_message of the call
\* do not change any more, also when the call is applied a second time.
C23_EnvelopeImmutability ==
  [][\A d \in DendriteCallIds :
       (dcalls[d].completed /\ dcalls'[d].completed) =>
         /\ dcalls'[d].return_code = dcalls[d].return_code
         /\ dcalls'[d].return_message = dcalls[d].return_message]_vars

\* C24: the return code of a call is Success (1) when the call is created
\* and is always one of Success, Timeout (2), VerificationFailed (23),
\* Blacklisted (25) and UnknownError (22).
C24_ReturnCodeDiscipline ==
  \A d \in DendriteCallIds :
    /\ dcalls[d].pc = "log_outbound" /\ ~dcalls[d].reapplied =>
         dcalls[d].return_code = Success
    /\ dcalls[d].pc # "none" => dcalls[d].return_code \in {Success, 2, 23, 25, 22}

---------------------------------------------------------------------------
(* Claims about the axon's config *)

\* C25: every port of a constructed axon's config (the port, the external
\* port, the FastAPI port and the external FastAPI port, where set) is
\* strictly between 1024 and 65535.
C25_PortValidation ==
  axon.status = "constructed" =>
    \A port \in {axon.config.port, axon.config.external_port,
                 axon.config.fast_api_port, axon.config.external_fast_api_port} :
      port = NoPort \/ (port > 1024 /\ port < 65535)

---------------------------------------------------------------------------
(* Claims about the order of the gates and the states of a call *)

\* C26: a returned call reports the earliest gate it failed, in the order
\* verification, blacklist, admission: VerificationFailed (23) when its
\* verification failed, Blacklisted (25) only when verification passed and
\* the blacklist function said so, and a rejection by the pool only for a
\* verified call that is not blacklisted.
C26_RejectionOrder ==
  \A c \in CallIds :
    calls[c].pc = "returned" =>
      /\ ~calls[c].verifies =>
           /\ calls[c].return_code = 23
           /\ calls[c].return_message = "Signature verification failed."
      /\ (calls[c].verifies /\ IsBlacklisted(calls[c].blacklist_ret)) =>
           calls[c].return_code = 25
      /\ calls[c].return_code = 25 => calls[c].verifies
      /\ calls[c].waited = "overloaded" =>
           (calls[c].verifies /\ calls[c].blacklist_ret = "(False, reason)")

\* the task of call c waits in the queue of the pool
InQueue(p, c) == \E k \in 1..Len(p.waiting) : p.waiting[k].task = c

\* the state of the dispatcher for a call: 1 Received, 2 Authenticated,
\* 3 Admitted (its task is queued), 4 Executing (a worker has taken its
\* task), 5 Finalized
DispatcherState(call, p, c) ==
  CASE call.pc \in {"log_request", "verify", "log_unverified"} -> 1
    [] call.pc \in {"blacklist", "submit"} -> 2
    [] call.pc = "wait" -> IF InQueue(p, c) THEN 3 ELSE 4
    [] call.pc \in {"finally", "returned"} -> 5
    [] OTHER -> 0

\* one of the gates (verification, blacklist, admission) turned the call away
FailedGate(call) ==
  \/ ~call.verifies
  \/ call.blacklist_ret # "" /\ ~ReturnsPair(call.blacklist_ret)
  \/ IsBlacklisted(call.blacklist_ret)
  \/ call.waited = "overloaded"

\* C27 as stated: a call in apply moves only forward through the states,
\* skips a state only to reach Finalized from a failed gate, and is
\* submitted at most once.
C27_Original ==
  [][\A c \in CallIds :
       calls[c].pc \notin {"none", "returned"} =>
         LET a == DispatcherState(calls[c], pool, c)
             b == DispatcherState(calls'[c], pool', c)
         IN /\ b >= a
            /\ b > a + 1 => (b = 5 /\ FailedGate(calls'[c]))
            /\ calls'[c].submitted <= 1]_vars

\* C27: a call in apply moves only forward through the states, skips a
\* state only to reach Finalized, from a failed gate or from Admitted when
\* the timeout passes while its task is still queued, and is submitted at
\* most once.
C27_DispatcherStateMachine ==
  [][\A c \in CallIds :
       calls[c].pc \notin {"none", "returned"} =>
         LET a == DispatcherState(calls[c], pool, c)
             b == DispatcherState(calls'[c], pool', c)
         IN /\ b >= a
            /\ b > a + 1 =>
                 /\ b = 5
                 /\ \/ FailedGate(calls'[c])
                    \/ a = 3 /\ calls'[c].waited = "timeout"
            /\ calls'[c].submitted <= 1]_vars

\* a call finalized by the timeout while its task is still in the queue
C27_Witness ==
  \E c \in CallIds :
    /\ calls[c].pc = "finally" /\ calls[c].waited = "timeout"
    /\ InQueue(pool, c)
    /\ calls[c].submitted = 1

\* C28: a call that has entered apply is eventually returned, whatever its
\* handler and the other tasks of the pool do.
C28_DispatcherTermination ==
  (calls[1].pc \notin {"none", "returned"}) ~> (calls[1].pc = "returned")

\* the call is returned after its timeout, while no worker is free and the
\* task it has given up is still in the pool
C28_Witness ==
  /\ calls[1].pc = "returned" /\ calls[1].waited = "timeout"
  /\ pool.others = pool.workers
  /\ pool.waiting # << >>

\* C29: once a call is finalized after a timeout, neither its return_code
\* nor its return_message nor its payload changes, and the handler of a call
\* writes to no other call.
C29_LateResultsDiscarded ==
  [][\A c \in CallIds :
       (Finalized(c) /\ calls[c].waited = "timeout" /\ calls'[c].pc # "log_request") =>
         /\ calls'[c].return_code = calls[c].return_code
         /\ calls'[c].return_message = calls[c].return_message
         /\ calls'[c].payload = calls[c].payload]_vars

\* C30: the request entry of the log is written once, before verify() is
\* called; the response entry is written once, when the call is returned,
\* and not before the outcome is decided; it carries the return_code the
\* call is returned with.
C30_ServerLogging ==
  \A c \in CallIds :
    /\ calls[c].pc = "log_request" =>
         (calls[c].request_logs = 0 /\ calls[c].response_logs = 0)
    /\ calls[c].pc \notin {"none", "log_request", "returned"} =>
         (calls[c].request_logs = 1 /\ calls[c].response_logs = 0)
    /\ calls[c].pc = "returned" =>
         /\ calls[c].request_logs = 1
         /\ calls[c].response_logs = 1
         /\ calls[c].logged_code = calls[c].return_code

\* calls returned on two ways: after a timeout and after a blacklisting
C30_Witness ==
  \E c \in CallIds, b \in CallIds :
    /\ calls[c].pc = "returned" /\ calls[c].waited = "timeout"
    /\ calls[c].response_logs = 1
    /\ calls[b].pc = "returned" /\ calls[b].return_code = 25
    /\ calls[b].response_logs = 1

---------------------------------------------------------------------------
(* Claims about the nonce ledger *)

\* the ledger holds exactly the keys of the pairs that had a request let
\* through, each with the nonce of the last request let through for it
LedgerMatches ==
  /\ DOMAIN nonces = {endpoint_key(k[1], k[2]) : k \in DOMAIN maxAcc}
  /\ \A k \in DOMAIN maxAcc : nonces[endpoint_key(k[1], k[2])] = maxAcc[k]

\* C31: the ledger has an entry for a (sender, session) key exactly when a
\* request of that key has been let through; the entry is the nonce of the
\* last such request, which is greater than the one before; no entry is
\* removed and no entry decreases.
C31_LedgerLifecycle ==
  /\ [](LedgerMatches /\ (Processed /\ cur.call_next /\ cur.prev.has
                            => cur.req.n > cur.prev.val))
  /\ [][\A key \in DOMAIN nonces :
          key \in DOMAIN nonces' /\ nonces'[key] >= nonces[key]]_vars

\* the entry of a key is advanced by a second request, while another key
\* has its entry
C31_Witness ==
  /\ Processed /\ cur.call_next /\ cur.changed
  /\ cur.prev.has /\ cur.req.n > cur.prev.val
  /\ Cardinality(DOMAIN nonces) >= 2
  /\ nonces[endpoint_key(cur.req.s, cur.req.u)] = cur.req.n

\* C32: a request changes no ledger entry but that of its own (sender,
\* session) key, and a well signed request whose nonce is fresh for its own
\* key is let through whatever the entries of the other keys are.
C32_SessionScoping ==
  [][cur.stage = "idle" /\ cur'.stage # "idle" =>
       /\ \A key \in DOMAIN nonces :
            key # endpoint_key(cur'.req.s, cur'.req.u) =>
              key \in DOMAIN nonces' /\ nonces'[key] = nonces[key]
       /\ \A key \in DOMAIN nonces' :
            key # endpoint_key(cur'.req.s, cur'.req.u) => key \in DOMAIN nonces
       /\ (/\ cur'.req.kind = "signed" /\ cur'.req.r = receiver_hotkey
           /\ cur'.req.version = VersionOk
           /\ \/ <<cur'.req.s, cur'.req.u>> \notin DOMAIN maxAcc
              \/ cur'.req.n > maxAcc[<<cur'.req.s, cur'.req.u>>])
          => cur'.call_next]_vars

\* a request is let through with a nonce that the same sender has used up
\* in another session, and another sender in the same session
C32_Witness ==
  /\ Processed /\ cur.call_next
  /\ <<cur.req.s, OtherSession(cur.req.u)>> \in DOMAIN maxAcc
  /\ maxAcc[<<cur.req.s, OtherSession(cur.req.u)>>] >= cur.req.n
  /\ <<OtherSender(cur.req.s), cur.req.u>> \in DOMAIN maxAcc
  /\ maxAcc[<<OtherSender(cur.req.s), cur.req.u>>] >= cur.req.n
  /\ nonces[endpoint_key(cur.req.s, OtherSession(cur.req.u))] =
       maxAcc[<<cur.req.s, OtherSession(cur.req.u)>>]

\* C33: a header whose nonce field is written with a leading zero, a plus
\* sign or a blank, signed over the message as written, is never let
\* through: with a current version it is rejected with 403, as a signature
\* mismatch when its nonce is fresh.
C33_CanonicalNonce ==
  (Processed /\ cur.req.kind = "nonce_format") =>
    /\ ~cur.call_next
    /\ cur.req.version = VersionOk =>
         /\ Rejected(403)
         /\ ~IsReplay => cur.response.detail = "Signature mismatch"

\* such a header, its nonce fresh, is rejected with a signature mismatch
C33_Witness ==
  /\ Processed /\ cur.req.kind = "nonce_format" /\ cur.req.version = VersionOk
  /\ ~IsReplay /\ InTrace("verify")
  /\ Rejected(403) /\ cur.response.detail = "Signature mismatch"

\* C34: a request that is not let through leaves the ledger as it was.
C34_RejectionsKeepLedger ==
  (Processed /\ ~cur.call_next) => ~cur.changed

\* a forged header with the largest nonce, greater than the entry of its
\* key, is rejected and the entry stays
C34_Witness ==
  /\ Processed /\ cur.req.kind = "forged" /\ cur.req.version = VersionOk
  /\ cur.req.n = MaxNonce
  /\ cur.prev.has /\ cur.prev.val < cur.req.n
  /\ Rejected(403) /\ cur.response.detail = "Signature mismatch"
  /\ nonces[endpoint_key(cur.req.s, cur.req.u)] = cur.prev.val

---------------------------------------------------------------------------
(* Claims about the blacklist hook's return shapes *)

\* C35: a verified call whose blacklist hook answered "not blacklisted", as
\* the pair (False, reason) or as a bare False, goes on to have its priority
\* evaluated and its callable submitted: once the hook has answered, the call
\* is at the submit step or has been through it.
C35_NotBlacklistedProceeds ==
  \A c \in CallIds :
    (calls[c].verifies /\ calls[c].blacklist_ret \in {"(False, reason)", "False"})
      => (calls[c].pc = "submit" \/ calls[c].priority_calls = 1)

---------------------------------------------------------------------------
(* Claims about the identity a call is treated under *)

\* C36: the hotkey of the call a route handler is given, on which blacklist
\* and priority decide, is the sender the signature header authenticated: a
\* request let through as one sender never yields a call of another hotkey.
C36_IdentityBinding ==
  routed.built => routed.hotkey = routed.sender

---------------------------------------------------------------------------
(* Claims about the axon's server thread *)

\* the threads that have been started and have not ended
Alive == {t \in Threads : server.threads[t] \in {"starting", "serving"}}

\* the flags, the threads and axon.started are as the last call found them
AsFound ==
  /\ axon.started = server.last.started
  /\ server.is_running = server.last.is_running
  /\ server.should_exit = server.last.should_exit
  /\ server.threads = server.last.threads

\* C37: at most one server thread is alive at any time; a start() that finds
\* the server running (started and not stopped) spawns no thread and changes
\* no state; a stop() that finds the server never started changes no state.
C37_SingleServerThread ==
  /\ Cardinality(Alive) <= 1
  /\ (server.last.op = "start" /\ server.last.is_running /\ ~server.last.should_exit)
       => AsFound
  /\ (server.last.op = "stop" /\ server.exists /\ ~server.last.is_running) => AsFound

\* start() has been called on a server whose thread is serving
C37_Witness ==
  /\ server.last.op = "start"
  /\ server.last.is_running /\ ~server.last.should_exit
  /\ server.last.threads[1] = "serving"
  /\ axon.started

\* the server is serving: a thread of it has been started and has not ended,
\* and should_exit is false
Serving == Alive # {} /\ ~server.should_exit

\* C38: axon.started is true exactly when the FastAPIThreadedServer is
\* serving, whatever calls of start and stop came before.
C38_LifecycleFlag ==
  axon.status = "constructed" => (axon.started <=> Serving)

=============================================================================
